---- MODULE Spec2Model ----
(***************************************************************************)
(* Model of the IPA translator core of servers/ipa-translator/main.py:     *)
(* the dictionary loader, the word-based and the character-based           *)
(* translation paths, the three output formatters and the /ipa handler.    *)
(*                                                                         *)
(* A Python str is a sequence of characters: "ab" is <<"a", "b">>.  A      *)
(* character is the one-character string of it; a character that cannot be *)
(* written in a string of this module is the string "U+" followed by its   *)
(* code point in four hexadecimal digits, so that "U+3000" is the single   *)
(* character U+3000 (the ideographic space) and <<"a", "U+3000", "b">> is  *)
(* the Python str 'a\u3000b' of length 3.  A dictionary (the parsed JSON   *)
(* file) is a function from keys to IPA strings, both such sequences.      *)
(***************************************************************************)
EXTENDS Integers, Sequences, FiniteSets, TLC

\* ---------------------------------------------------------------- bounds
\* longest input drawn over the two-letter alphabet {a, b}
MaxRun == 6
\* longest input drawn over the character-path alphabet
MaxMix == 3
\* longest input drawn over the word-path alphabet
MaxEn == 3
\* longest input of the formatters drawn over the tone alphabet
MaxFmt == 3

\* ------------------------------------------------------ string helpers
Min(a, b) == IF a < b THEN a ELSE b

\* every string over alphabet A of length at most n
Strs(A, n) == UNION {[1..k -> A] : k \in 0..n}

RECURSIVE Flatten(_)
\* "".join(parts)
Flatten(parts) ==
    IF parts = <<>> THEN <<>> ELSE Head(parts) \o Flatten(Tail(parts))

RECURSIVE JoinWith(_, _)
\* sep.join(parts)
JoinWith(parts, sep) ==
    IF parts = <<>> THEN <<>>
    ELSE IF Len(parts) = 1 THEN Head(parts)
    ELSE Head(parts) \o sep \o JoinWith(Tail(parts), sep)

\* a replace that stops after the first occurrence (what JavaScript's
\* String.replace does with a string pattern)
replaceFirst(s, old, new) ==
    IF \E j \in 1..(Len(s) - Len(old) + 1) : SubSeq(s, j, j + Len(old) - 1) = old
    THEN LET j == CHOOSE x \in 1..(Len(s) - Len(old) + 1) :
                     /\ SubSeq(s, x, x + Len(old) - 1) = old
                     /\ \A y \in 1..(x - 1) : SubSeq(s, y, y + Len(old) - 1) # old
         IN SubSeq(s, 1, j - 1) \o new \o SubSeq(s, j + Len(old), Len(s))
    ELSE s

RECURSIVE replace(_, _, _)
\* str.replace(old, new) for a non-empty old: the non-overlapping occurrences
\* of old, found left to right, are replaced by new
replace(s, old, new) ==
    IF Len(s) < Len(old) THEN s
    ELSE IF SubSeq(s, 1, Len(old)) = old
         THEN new \o replace(SubSeq(s, Len(old) + 1, Len(s)), old, new)
         ELSE <<Head(s)>> \o replace(Tail(s), old, new)

\* ------------------------------------------------------------ registry
\* available_formats
available_formats == <<"org", "num", "Jyutping">>

\* source_dict: language code -> file name (the display name is not used
\* by the translation path)
SourceDictInit ==
    ("yue" :> "yue.json") @@ ("en_UK" :> "en_UK.json")
    @@ ("en_US" :> "en_US.json") @@ ("eo" :> "eo.json")
    @@ ("fr_FR" :> "fr_FR.json") @@ ("fr_QC" :> "fr_QC.json")
    @@ ("ja" :> "ja.json") @@ ("zh_hans" :> "zh_hans.json")
    @@ ("zh_hant" :> "zh_hant.json") @@ ("fa" :> "fa.json")
    @@ ("es_ES" :> "es_ES.json") @@ ("es_MX" :> "es_MX.json")

\* the three character-based codes of translate_to_ipa
ZhCodes == {"zh_hans", "yue", "zh_hant"}

\* ----------------------------------------------------------- formatters
\* _preprocess_eng: str.translate of A-Z to a-z
UpperLetters ==
    <<"A", "B", "C", "D", "E", "F", "G", "H", "I", "J", "K", "L", "M",
      "N", "O", "P", "Q", "R", "S", "T", "U", "V", "W", "X", "Y", "Z">>
LowerLetters ==
    <<"a", "b", "c", "d", "e", "f", "g", "h", "i", "j", "k", "l", "m",
      "n", "o", "p", "q", "r", "s", "t", "u", "v", "w", "x", "y", "z">>

translate_lower(text) ==
    [k \in 1..Len(text) |->
        IF \E j \in 1..26 : UpperLetters[j] = text[k]
        THEN LowerLetters[CHOOSE j \in 1..26 : UpperLetters[j] = text[k]]
        ELSE text[k]]

\* the characters _preprocess_eng strips, in the order of its for loop
StripChars == <<".", "\n", ",">>

RECURSIVE StripAll(_, _)
StripAll(text, cs) ==
    IF cs = <<>> THEN text
    ELSE StripAll(replace(text, <<Head(cs)>>, <<>>), Tail(cs))

_preprocess_eng(text) == StripAll(translate_lower(text), StripChars)

\* the chain without its fourth link: the low tone glyph is left in
_format_ipa_num_no_low(txt) ==
    replace(replace(replace(replace(txt,
        <<"˥">>, <<"5">>),
        <<"˧">>, <<"3">>),
        <<"˨">>, <<"2">>),
        <<":">>, <<>>)

\* _format_ipa_num: the chain of five str.replace calls
_format_ipa_num(txt) ==
    replace(replace(replace(replace(replace(txt,
        <<"˥">>, <<"5">>),
        <<"˧">>, <<"3">>),
        <<"˨">>, <<"2">>),
        <<"˩">>, <<"1">>),
        <<":">>, <<>>)

\* the replacements list of _format_jyutping, in order
JyutpingReplacements ==
    << <<<<"˥", "˧">>, <<"1">>>>, <<<<"˥", "˥">>, <<"1">>>>,
       <<<<"˧", "˥">>, <<"2">>>>, <<<<"˧", "˥">>, <<"2">>>>,
       <<<<"˧", "˧">>, <<"3">>>>,
       <<<<"˨", "˩">>, <<"4">>>>, <<<<"˩", "˩">>, <<"4">>>>,
       <<<<"˩", "˧">>, <<"5">>>>, <<<<"˨", "˧">>, <<"5">>>>,
       <<<<"˨", "˨">>, <<"6">>>>,
       <<<<"k", "˥">>, <<"k", "7">>>>, <<<<"k", "˧">>, <<"k", "8">>>>,
       <<<<"k", "˨">>, <<"k", "9">>>>,
       <<<<"t", "˥">>, <<"t", "7">>>>, <<<<"t", "˧">>, <<"t", "8">>>>,
       <<<<"t", "˨">>, <<"t", "9">>>>,
       <<<<"p", "˥">>, <<"p", "7">>>>, <<<<"p", "˧">>, <<"p", "8">>>>,
       <<<<"p", "˨">>, <<"p", "9">>>>,
       <<<<"˥">>, <<"1">>>>, <<<<"˧">>, <<"3">>>>, <<<<"˨">>, <<"6">>>>,
       <<<<":">>, <<>>>> >>

RECURSIVE ApplyReplacements(_, _)
\* for old, new in replacements: txt = txt.replace(old, new)
ApplyReplacements(txt, rs) ==
    IF rs = <<>> THEN txt
    ELSE ApplyReplacements(replace(txt, Head(rs)[1], Head(rs)[2]), Tail(rs))

_format_jyutping(txt) == ApplyReplacements(txt, JyutpingReplacements)

_format_ipa_org(txt) == txt

\* the if/elif/else at the end of _translate_to_ipa_zh
ApplyFormat(output_format, raw_result) ==
    IF output_format = "num" THEN _format_ipa_num(raw_result)
    ELSE IF output_format = "jyutping" THEN _format_jyutping(raw_result)
    ELSE _format_ipa_org(raw_result)

\* ------------------------------------------------------- path helpers
\* the characters str.split() treats as separators, the 29 that
\* str.isspace() holds of: tab, line feed, vertical tab, form feed, carriage
\* return, U+001C to U+001F, space, U+0085, U+00A0, U+1680, U+2000 to U+200A,
\* U+2028, U+2029, U+202F, U+205F and U+3000
Whitespace ==
    {" ", "\n", "\t", "\r", "\f", "", "", "", "", "", "", " ", " ",
     "U+2000", "U+2001", "U+2002", "U+2003", "U+2004", "U+2005",
     "U+2006", "U+2007", "U+2008", "U+2009", "U+200A",
     "U+2028", "U+2029", "U+202F", "U+205F", "U+3000"}

RECURSIVE WordLen(_)
\* length of the longest prefix of s without whitespace
WordLen(s) ==
    IF s = <<>> \/ Head(s) \in Whitespace THEN 0 ELSE 1 + WordLen(Tail(s))

RECURSIVE split(_)
\* input_string.split(): the runs of non-whitespace characters, in order
split(s) ==
    IF s = <<>> THEN <<>>
    ELSE IF Head(s) \in Whitespace THEN split(Tail(s))
    ELSE <<SubSeq(s, 1, WordLen(s))>>
             \o split(SubSeq(s, WordLen(s) + 1, Len(s)))

\* f"{token}/{ipa}/" if show_word_form else f"/{ipa}/"
Piece(token, ipa, show_word_form) ==
    IF show_word_form THEN token \o <<"/">> \o ipa \o <<"/">>
    ELSE <<"/">> \o ipa \o <<"/">>

\* a copied character given a trailing delimiter
CopyPieceSpaced(ch) == <<ch, " ">>

\* result_parts.append(ch): the piece of a character that matched nothing
CopyPiece(ch) == <<ch>>

\* the cursor moved by one whatever was matched
MatchAdvanceOne(match) == 1

\* i += len(match)
MatchAdvance(match) == Len(match)

\* the window of the candidate search: range(1, 7)
MaxWordLen == 6

\* candidates: chars[i:i+L] for L in range(1, 7) if i + L <= len(chars)
\* (i is the 0-based cursor)
Candidates(chars, i) ==
    [L \in 1..Min(MaxWordLen, Len(chars) - i) |-> SubSeq(chars, i + 1, i + L)]

RECURSIVE LongestIn(_, _)
\* for cand in reversed(candidates): the first one in the dictionary;
\* <<>> stands for None (no candidate is empty)
LongestIn(cands, ipa_dict) ==
    IF cands = <<>> THEN <<>>
    ELSE IF cands[Len(cands)] \in DOMAIN ipa_dict THEN cands[Len(cands)]
    ELSE LongestIn(SubSeq(cands, 1, Len(cands) - 1), ipa_dict)

\* ------------------------------------------------------------- inputs
\* The files under ./data are not part of the source tree; these small
\* dictionaries stand for their parsed contents.
DictYue ==
    (<<"a">> :> <<"a", "˥">>)
    @@ (<<"a", "b">> :> <<"p", "˧">>)
    @@ (<<"a", "b", "c">> :> <<"k", "˨", "˩">>)
    @@ (<<"b", "b">> :> <<"t", "˨">>)
    @@ (<<"b", "c">> :> <<"o", ":">>)
    @@ (<<"b", "b", "b", "b", "b", "b">> :> <<"˧", "˥">>)
    @@ (<<"b", "b", "b", "b", "b", "b", "b">> :> <<"z">>)

DictHans ==
    (<<"b">> :> <<"p", "˥">>)
    @@ (<<"a", "b">> :> <<"u", "˩">>)
    @@ (<<"a", "a", "a">> :> <<"˥", "˧">>)
    @@ (<<"c", " ">> :> <<"i", ":", "˧">>)

DictEn ==
    (<<"a">> :> <<"e">>)
    @@ (<<"A">> :> <<"e", "i">>)
    @@ (<<"a", ",">> :> <<"x">>)
    @@ (<<"a", "b">> :> <<"q", "b">>)

DictFr ==
    (<<"a", "a">> :> <<"o">>)
    @@ (<<"a">> :> <<"a">>)

\* the contents of ./data: file name -> parsed dictionary
DataInit ==
    [f \in {SourceDictInit[c] : c \in DOMAIN SourceDictInit} |->
        CASE f = "yue.json" -> DictYue
          [] f \in {"zh_hans.json", "zh_hant.json"} -> DictHans
          [] f \in {"en_US.json", "en_UK.json"} -> DictEn
          [] OTHER -> DictFr]

RunAlphabet == {"a", "b"}
ZhAlphabet == {"a", "b", "c", " ", ":"}
\* the last two are U+00A0, the no-break space, and the ideographic space
EnAlphabet == {"a", "A", ",", ".", " ", "\n", " ", "U+3000"}

ZhTexts == Strs(RunAlphabet, MaxRun) \cup Strs(ZhAlphabet, MaxMix)
EnTexts == Strs(EnAlphabet, MaxEn)

\* the output_format values tried: the three advertised names and the
\* lower-case name the dispatch compares with
\* the characters of the formatters' inputs
FmtAlphabet == {"˥", "˧", "˨", "˩", "k", "t", "p", ":", "a"}
FmtTexts == Strs(FmtAlphabet, MaxFmt)

FormatInputs == {"org", "num", "Jyutping", "jyutping"}

ZhInputs ==
    [text : ZhTexts, lang : {"yue", "zh_hans", "xx_ZZ"}, show : BOOLEAN,
     fmt : FormatInputs, via : {"direct"}]

EnInputs ==
    [text : EnTexts, lang : {"en_US", "fr_FR"}, show : BOOLEAN,
     fmt : {"org", "num"}, via : {"direct"}]

ApiInputs ==
    [text : {<<"a", "b">>, <<"A", " ", "a">>},
     lang : {"yue", "en_US", "xx_ZZ"}, show : BOOLEAN,
     fmt : {"org", "num"}, via : {"direct", "get_ipa"}]

\* --------------------------------------------------------------- state
Procs == {1, 2}

VARIABLES
    source_dict,   \* the registry
    data,          \* the dictionary files under ./data
    pc,            \* per call: the statement it is at
    req,           \* per call: the arguments
    path,          \* per call: which path translate_to_ipa chose
    ipa_dict,      \* per call: the dictionary _load_ipa_dict returned
    chars,         \* per call: list(input_string)
    i,             \* per call: the cursor of the character loop
    words,         \* per call: input_string.split()
    wi,            \* per call: words already taken by the for loop
    result_parts,  \* per call: the pieces emitted so far
    outcome,       \* per call: "returned" or the exception raised
    result,        \* per call: the string returned
    reads,         \* history, per call: the files it has opened
    spans,         \* history, per call: <<cursor, length, hit>> per iteration
    fin,           \* formatter run: the argument txt
    fpc,           \* formatter run: where it is
    ftxt,          \* formatter run: txt of _format_jyutping's loop, each
                   \* character paired with the rule that produced it (0: input)
    fri,           \* formatter run: replacements already applied
    fout           \* formatter run: the value returned

globals == <<source_dict, data>>
locals == <<path, ipa_dict, chars, i, words, wi, result_parts, spans>>
calls == <<source_dict, data, pc, req, path, ipa_dict, chars, i, words, wi,
           result_parts, outcome, result, reads, spans>>
fmtvars == <<fin, fpc, ftxt, fri, fout>>
vars == <<source_dict, data, pc, req, path, ipa_dict, chars, i, words, wi,
          result_parts, outcome, result, reads, spans, fin, fpc, ftxt, fri,
          fout>>

NoReq == [text |-> <<>>, lang |-> "", show |-> FALSE, fmt |-> "", via |-> ""]

\* the state at import: the registry is built, no call is running
Idle ==
    /\ source_dict = SourceDictInit
    /\ data = DataInit
    /\ pc = [p \in Procs |-> "idle"]
    /\ req = [p \in Procs |-> NoReq]
    /\ path = [p \in Procs |-> ""]
    /\ ipa_dict = [p \in Procs |-> DictFr]
    /\ chars = [p \in Procs |-> <<>>]
    /\ i = [p \in Procs |-> 0]
    /\ words = [p \in Procs |-> <<>>]
    /\ wi = [p \in Procs |-> 0]
    /\ result_parts = [p \in Procs |-> <<>>]
    /\ outcome = [p \in Procs |-> "none"]
    /\ result = [p \in Procs |-> <<>>]
    /\ reads = [p \in Procs |-> {}]
    /\ spans = [p \in Procs |-> <<>>]
    /\ fpc = "start"
    /\ ftxt = <<>>
    /\ fri = 0
    /\ fout = <<>>

Init ==
    /\ fin = <<>>
    /\ Idle

\* -------------------------------------------------------------- actions
FreshLocals(p) ==
    /\ path' = [path EXCEPT ![p] = ""]
    /\ ipa_dict' = [ipa_dict EXCEPT ![p] = DictFr]
    /\ chars' = [chars EXCEPT ![p] = <<>>]
    /\ i' = [i EXCEPT ![p] = 0]
    /\ words' = [words EXCEPT ![p] = <<>>]
    /\ wi' = [wi EXCEPT ![p] = 0]
    /\ result_parts' = [result_parts EXCEPT ![p] = <<>>]
    /\ spans' = [spans EXCEPT ![p] = <<>>]

\* an exception leaving translate_to_ipa: get_ipa's except clause turns any
\* of them into HTTP 500, a direct caller sees the exception itself
Raised(p, exc) == IF req[p].via = "get_ipa" THEN "HTTP500" ELSE exc

\* a caller starts a call with arguments r: get_ipa(payload) of the /ipa
\* route, or translate_to_ipa called directly
Call(p, Inputs) ==
    /\ pc[p] = "idle"
    /\ \E r \in Inputs :
          /\ req' = [req EXCEPT ![p] = r]
          /\ pc' = [pc EXCEPT ![p] =
                       IF r.via = "get_ipa" THEN "get_ipa" ELSE "translate"]
    /\ UNCHANGED <<fmtvars, globals, locals, outcome, result, reads>>

\* get_ipa: the registry check of the handler, then the call in the try
get_ipa(p) ==
    /\ pc[p] = "get_ipa"
    /\ IF req[p].lang \notin DOMAIN source_dict
       THEN /\ outcome' = [outcome EXCEPT ![p] = "HTTP400"]
            /\ pc' = [pc EXCEPT ![p] = "done"]
       ELSE /\ pc' = [pc EXCEPT ![p] = "translate"]
            /\ UNCHANGED outcome
    /\ UNCHANGED <<fmtvars, globals, locals, req, result, reads>>

\* translate_to_ipa: the dispatch on lang_code; both paths begin by
\* calling _load_ipa_dict
translate_to_ipa(p) ==
    /\ pc[p] = "translate"
    /\ path' = [path EXCEPT ![p] =
                   IF req[p].lang \in ZhCodes THEN "zh" ELSE "en"]
    /\ pc' = [pc EXCEPT ![p] = "load"]
    /\ UNCHANGED <<fmtvars, globals, ipa_dict, chars, i, words, wi, result_parts,
                   spans, req, outcome, result, reads>>

\* a loader without its registry check
LoadCheckSkipped(p) ==
    /\ pc[p] = "load"
    /\ pc' = [pc EXCEPT ![p] = "open"]
    /\ UNCHANGED <<fmtvars, globals, locals, req, outcome, result, reads>>

\* _load_ipa_dict, the registry check
LoadCheck(p) ==
    /\ pc[p] = "load"
    /\ IF req[p].lang \notin DOMAIN source_dict
       THEN /\ outcome' = [outcome EXCEPT ![p] = Raised(p, "ValueError")]
            /\ pc' = [pc EXCEPT ![p] = "done"]
       ELSE /\ pc' = [pc EXCEPT ![p] = "open"]
            /\ UNCHANGED outcome
    /\ UNCHANGED <<fmtvars, globals, locals, req, result, reads>>

\* a loader with one cache slot that is not keyed by language code: the
\* dictionary another running call loaded is handed out
LoadedDictStale(p) ==
    IF \E q \in Procs \ {p} : reads[q] # {}
    THEN ipa_dict[CHOOSE q \in Procs \ {p} : reads[q] # {}]
    ELSE data[source_dict[req[p].lang]]

\* what _load_ipa_dict returns to call p: json.load of the file of its code
LoadedDict(p) == data[source_dict[req[p].lang]]

\* _load_ipa_dict, opening and parsing the file; then the statements of the
\* chosen path up to its loop
LoadRead(p) ==
    /\ pc[p] = "open"
    /\ LET filename == source_dict[req[p].lang] IN
          /\ reads' = [reads EXCEPT ![p] = @ \cup {filename}]
          /\ ipa_dict' = [ipa_dict EXCEPT ![p] = LoadedDict(p)]
    /\ IF path[p] = "zh"
       THEN /\ chars' = [chars EXCEPT ![p] = req[p].text]
            /\ pc' = [pc EXCEPT ![p] = "zh_loop"]
            /\ UNCHANGED words
       ELSE /\ words' = [words EXCEPT ![p] = split(req[p].text)]
            /\ pc' = [pc EXCEPT ![p] = "en_loop"]
            /\ UNCHANGED chars
    /\ i' = [i EXCEPT ![p] = 0]
    /\ wi' = [wi EXCEPT ![p] = 0]
    /\ result_parts' = [result_parts EXCEPT ![p] = <<>>]
    /\ UNCHANGED <<fmtvars, globals, path, spans, req, outcome, result>>

\* one iteration of the while loop of _translate_to_ipa_zh
ZhIter(p) ==
    /\ pc[p] = "zh_loop"
    /\ i[p] < Len(chars[p])
    /\ LET ch == chars[p][i[p] + 1]
           match == LongestIn(Candidates(chars[p], i[p]), ipa_dict[p])
       IN
          \/ \* direct character lookup
             /\ <<ch>> \in DOMAIN ipa_dict[p]
             /\ result_parts' = [result_parts EXCEPT ![p] =
                   Append(@, Piece(<<ch>>, ipa_dict[p][<<ch>>], req[p].show))]
             /\ i' = [i EXCEPT ![p] = @ + 1]
             /\ spans' = [spans EXCEPT ![p] = Append(@, <<i[p], 1, TRUE>>)]
          \/ \* the longest candidate found in the dictionary
             /\ <<ch>> \notin DOMAIN ipa_dict[p]
             /\ match # <<>>
             /\ result_parts' = [result_parts EXCEPT ![p] =
                   Append(@, Piece(match, ipa_dict[p][match], req[p].show))]
             /\ i' = [i EXCEPT ![p] = @ + MatchAdvance(match)]
             /\ spans' = [spans EXCEPT ![p] =
                   Append(@, <<i[p], Len(match), TRUE>>)]
          \/ \* no match: the character is copied
             /\ <<ch>> \notin DOMAIN ipa_dict[p]
             /\ match = <<>>
             /\ result_parts' = [result_parts EXCEPT ![p] =
                   Append(@, CopyPiece(ch))]
             /\ i' = [i EXCEPT ![p] = @ + 1]
             /\ spans' = [spans EXCEPT ![p] = Append(@, <<i[p], 1, FALSE>>)]
    /\ UNCHANGED <<fmtvars, globals, path, ipa_dict, chars, words, wi, pc, req,
                   outcome, result, reads>>

\* the loop of _translate_to_ipa_zh has ended: join and format
ZhFormat(p) ==
    /\ pc[p] = "zh_loop"
    /\ ~(i[p] < Len(chars[p]))
    /\ result' = [result EXCEPT ![p] =
                     ApplyFormat(req[p].fmt, Flatten(result_parts[p]))]
    /\ outcome' = [outcome EXCEPT ![p] = "returned"]
    /\ pc' = [pc EXCEPT ![p] = "done"]
    /\ UNCHANGED <<fmtvars, globals, locals, req, reads>>

\* an iteration that keeps the normalized token, not the word, on a miss
EnPiecesNormalizedMiss(word, dict, show_word_form) ==
    IF word = <<>> THEN <<>>
    ELSE LET t_word == _preprocess_eng(word) IN
         IF t_word \in DOMAIN dict
         THEN <<Piece(t_word, dict[t_word], show_word_form)>>
         ELSE <<t_word>>

\* what one iteration of the for loop of _translate_to_ipa_en appends
EnPieces(word, dict, show_word_form) ==
    IF word = <<>> THEN <<>>
    ELSE LET t_word == _preprocess_eng(word) IN
         IF t_word \in DOMAIN dict
         THEN <<Piece(t_word, dict[t_word], show_word_form)>>
         ELSE <<word>>

\* one iteration of the for loop of _translate_to_ipa_en
EnIter(p) ==
    /\ pc[p] = "en_loop"
    /\ wi[p] < Len(words[p])
    /\ result_parts' = [result_parts EXCEPT ![p] =
          @ \o EnPieces(words[p][wi[p] + 1], ipa_dict[p], req[p].show)]
    /\ wi' = [wi EXCEPT ![p] = @ + 1]
    /\ UNCHANGED <<fmtvars, globals, path, ipa_dict, chars, i, words, spans, pc, req,
                   outcome, result, reads>>

\* the for loop of _translate_to_ipa_en has ended: join with spaces
EnJoin(p) ==
    /\ pc[p] = "en_loop"
    /\ wi[p] = Len(words[p])
    /\ result' = [result EXCEPT ![p] = JoinWith(result_parts[p], <<" ">>)]
    /\ outcome' = [outcome EXCEPT ![p] = "returned"]
    /\ pc' = [pc EXCEPT ![p] = "done"]
    /\ UNCHANGED <<fmtvars, globals, locals, req, reads>>

\* the caller has its answer; the call's frame is gone
Return(p) ==
    /\ pc[p] = "done"
    /\ pc' = [pc EXCEPT ![p] = "idle"]
    /\ req' = [req EXCEPT ![p] = NoReq]
    /\ outcome' = [outcome EXCEPT ![p] = "none"]
    /\ result' = [result EXCEPT ![p] = <<>>]
    /\ reads' = [reads EXCEPT ![p] = {}]
    /\ FreshLocals(p)
    /\ UNCHANGED <<fmtvars, globals>>

\* ------------------------------------------------------- specifications
\* character-based translations, one call at a time
NextZh ==
    \/ Call(1, ZhInputs)
    \/ translate_to_ipa(1)
    \/ LoadCheck(1)
    \/ LoadRead(1)
    \/ ZhIter(1)
    \/ ZhFormat(1)
    \/ Return(1)

SpecZh == Init /\ [][NextZh]_vars

\* one character-based call run to its end: the interpreter keeps
\* executing the loop of a call while its condition holds
NextZhRun ==
    \/ Call(1, ZhInputs)
    \/ translate_to_ipa(1)
    \/ LoadCheck(1)
    \/ LoadRead(1)
    \/ ZhIter(1)
    \/ ZhFormat(1)

SpecZhRun == Init /\ [][NextZhRun]_vars /\ WF_vars(ZhIter(1))

\* word-based translations, one call at a time
NextEn ==
    \/ Call(1, EnInputs)
    \/ translate_to_ipa(1)
    \/ LoadCheck(1)
    \/ LoadRead(1)
    \/ EnIter(1)
    \/ EnJoin(1)
    \/ Return(1)

SpecEn == Init /\ [][NextEn]_vars

\* two callers at once, through the /ipa route or directly
NextApi ==
    \E p \in Procs :
        \/ Call(p, ApiInputs)
        \/ get_ipa(p)
        \/ translate_to_ipa(p)
        \/ LoadCheck(p)
        \/ LoadRead(p)
        \/ ZhIter(p)
        \/ ZhFormat(p)
        \/ EnIter(p)
        \/ EnJoin(p)
        \/ Return(p)

SpecApi == Init /\ [][NextApi]_vars

\* ------------------------------------------------------- formatter runs
Tag(s, r) == [k \in 1..Len(s) |-> <<s[k], r>>]
Untag(ts) == [k \in 1..Len(ts) |-> ts[k][1]]

RECURSIVE replaceT(_, _, _, _)
\* txt.replace(old, new) as rule number r of the loop of _format_jyutping:
\* replace on the characters, the characters written marked with r
replaceT(ts, old, new, r) ==
    IF Len(ts) < Len(old) THEN ts
    ELSE IF Untag(SubSeq(ts, 1, Len(old))) = old
         THEN Tag(new, r)
                  \o replaceT(SubSeq(ts, Len(old) + 1, Len(ts)), old, new, r)
         ELSE <<Head(ts)>> \o replaceT(Tail(ts), old, new, r)

\* _format_ipa_org(txt)
FormatOrg ==
    /\ fpc = "start"
    /\ fout' = _format_ipa_org(fin)
    /\ fpc' = "org_done"
    /\ UNCHANGED <<fin, ftxt, fri>>
    /\ UNCHANGED calls

\* _format_ipa_num(txt)
FormatNum ==
    /\ fpc = "start"
    /\ fout' = _format_ipa_num(fin)
    /\ fpc' = "num_done"
    /\ UNCHANGED <<fin, ftxt, fri>>
    /\ UNCHANGED calls

\* _format_jyutping(txt) is entered
JyutpingBegin ==
    /\ fpc = "start"
    /\ ftxt' = Tag(fin, 0)
    /\ fri' = 0
    /\ fpc' = "jyutping"
    /\ UNCHANGED <<fin, fout>>
    /\ UNCHANGED calls

\* one iteration of the for loop of _format_jyutping
JyutpingRule ==
    /\ fpc = "jyutping"
    /\ fri < Len(JyutpingReplacements)
    /\ LET rule == JyutpingReplacements[fri + 1] IN
          ftxt' = replaceT(ftxt, rule[1], rule[2], fri + 1)
    /\ fri' = fri + 1
    /\ UNCHANGED <<fin, fpc, fout>>
    /\ UNCHANGED calls

\* return txt
JyutpingEnd ==
    /\ fpc = "jyutping"
    /\ fri = Len(JyutpingReplacements)
    /\ fout' = Untag(ftxt)
    /\ fpc' = "jyutping_done"
    /\ UNCHANGED <<fin, ftxt, fri>>
    /\ UNCHANGED calls

NextFmt ==
    \/ FormatOrg
    \/ FormatNum
    \/ JyutpingBegin
    \/ JyutpingRule
    \/ JyutpingEnd

InitFmt ==
    /\ fin \in FmtTexts
    /\ Idle

\* one formatter applied to one string
SpecFmt == InitFmt /\ [][NextFmt]_vars

\* =============================================================== claims
\* the dictionary of a call's language code, as stored under ./data
DictOf(p) == data[source_dict[req[p].lang]]

\* a character-based call that is in its loop or has returned
InZh(p) ==
    /\ path[p] = "zh"
    /\ pc[p] = "zh_loop" \/ (pc[p] = "done" /\ outcome[p] = "returned")

\* a word-based call that is in its loop or has returned
InEn(p) ==
    /\ path[p] = "en"
    /\ pc[p] = "en_loop" \/ (pc[p] = "done" /\ outcome[p] = "returned")

\* the keys of dictionary d of length lo to hi (at most MaxWordLen and the
\* remaining input) that start at 0-based position at of s
KeyLensAt(s, at, d, lo, hi) ==
    {L \in lo..Min(hi, Len(s) - at) : SubSeq(s, at + 1, at + L) \in DOMAIN d}

\* C1: in the character-based path, the token consumed at every cursor
\* position is the longest dictionary key of length 1 to 6 (bounded by the
\* remaining input) that starts at that position.
C1_LongestKeyAtCursor ==
    InZh(1) =>
        \A k \in 1..Len(spans[1]) :
            \A L \in KeyLensAt(chars[1], spans[1][k][1], DictOf(1), 1,
                                MaxWordLen) :
                L <= spans[1][k][2]

\* ----------------------------------------------------------------- C2
C2_ToLower(c) ==
    CASE c = "A" -> "a" [] c = "B" -> "b" [] c = "C" -> "c" [] c = "D" -> "d"
      [] c = "E" -> "e" [] c = "F" -> "f" [] c = "G" -> "g" [] c = "H" -> "h"
      [] c = "I" -> "i" [] c = "J" -> "j" [] c = "K" -> "k" [] c = "L" -> "l"
      [] c = "M" -> "m" [] c = "N" -> "n" [] c = "O" -> "o" [] c = "P" -> "p"
      [] c = "Q" -> "q" [] c = "R" -> "r" [] c = "S" -> "s" [] c = "T" -> "t"
      [] c = "U" -> "u" [] c = "V" -> "v" [] c = "W" -> "w" [] c = "X" -> "x"
      [] c = "Y" -> "y" [] c = "Z" -> "z" [] OTHER -> c

C2_Kept(c) == c \notin {".", ",", "\n"}

\* the normalized token: A-Z lowercased, every '.', ',' and newline removed
C2_Normalized(tok) ==
    SelectSeq([k \in 1..Len(tok) |-> C2_ToLower(tok[k])], C2_Kept)

\* the whitespace-delimited tokens of s as <<first, last>> index pairs
C2_TokenSpans(s) ==
    {sp \in (1..Len(s)) \X (1..Len(s)) :
        /\ sp[1] <= sp[2]
        /\ \A k \in sp[1]..sp[2] : s[k] \notin Whitespace
        /\ sp[1] = 1 \/ s[sp[1] - 1] \in Whitespace
        /\ sp[2] = Len(s) \/ s[sp[2] + 1] \in Whitespace}

\* the piece the claim gives a token with showTokenForm false
C2_PieceOf(tok, d) ==
    IF C2_Normalized(tok) \in DOMAIN d
    THEN <<"/">> \o d[C2_Normalized(tok)] \o <<"/">>
    ELSE tok

RECURSIVE C2_Expected(_, _, _)
\* the pieces of the tokens starting at index from or later, each but the
\* first of the whole output preceded by one space
C2_Expected(s, d, from) ==
    LET later == {sp \in C2_TokenSpans(s) : sp[1] >= from} IN
    IF later = {} THEN <<>>
    ELSE LET sp == CHOOSE x \in later : \A y \in later : x[1] <= y[1] IN
         (IF from = 1 THEN <<>> ELSE <<" ">>)
             \o C2_PieceOf(SubSeq(s, sp[1], sp[2]), d)
             \o C2_Expected(s, d, sp[2] + 1)

\* C2: with showTokenForm false the word-based output is the single-space
\* join, in input order, of one piece per whitespace-delimited token:
\* "/" + IPA + "/" when the normalized token is a key, else the original
\* token; empty or all-whitespace input gives the empty string.
C2_WordPathOutput ==
    (pc[1] = "done" /\ InEn(1) /\ ~req[1].show) =>
        /\ result[1] = C2_Expected(req[1].text, DictOf(1), 1)
        /\ (\A k \in 1..Len(req[1].text) : req[1].text[k] \in Whitespace)
               => result[1] = <<>>

\* "A ." in en_US: a normalized hit and a miss kept as typed
C2_Witness ==
    /\ pc[1] = "done" /\ InEn(1) /\ ~req[1].show
    /\ req[1].lang = "en_US"
    /\ req[1].text = <<"A", " ", ".">>
    /\ result[1] = <<"/", "e", "/", " ", ".">>

\* C3: with showTokenForm true every hit emits the input token followed by
\* "/" + IPA + "/", with it false only "/" + IPA + "/"; the token is the
\* matched span (character path) or the whitespace-delimited word (word
\* path) exactly as it appears in the input.
C3_ShowTokenForm ==
    /\ InZh(1) =>
          \A k \in 1..Len(spans[1]) :
              LET tok == SubSeq(chars[1], spans[1][k][1] + 1,
                                spans[1][k][1] + spans[1][k][2]) IN
              spans[1][k][3] =>
                  result_parts[1][k] =
                      (IF req[1].show THEN tok ELSE <<>>)
                          \o <<"/">> \o DictOf(1)[tok] \o <<"/">>
    /\ InEn(1) =>
          \A k \in 1..wi[1] :
              LET tok == words[1][k] IN
              C2_Normalized(tok) \in DOMAIN DictOf(1) =>
                  result_parts[1][k] =
                      (IF req[1].show THEN tok ELSE <<>>)
                          \o <<"/">> \o DictOf(1)[C2_Normalized(tok)]
                          \o <<"/">>

\* C4: a language code outside the registry fails with the unsupported-
\* language error (ValueError from _load_ipa_dict, HTTP 400 from get_ipa),
\* returns no string and opens no dictionary file; a file is opened only
\* after the registry check has passed, and it is the file of the code.
C4_UnsupportedLanguage ==
    \A p \in Procs :
        /\ (pc[p] # "idle" /\ req[p].lang \notin DOMAIN source_dict) =>
              /\ reads[p] = {}
              /\ pc[p] \in {"get_ipa", "translate", "load", "done"}
              /\ outcome[p] # "returned" /\ result[p] = <<>>
              /\ pc[p] = "done" =>
                    outcome[p] = IF req[p].via = "get_ipa" THEN "HTTP400"
                                 ELSE "ValueError"
        /\ pc[p] \in {"open", "zh_loop", "en_loop"} =>
              req[p].lang \in DOMAIN source_dict
        /\ reads[p] # {} =>
              /\ req[p].lang \in DOMAIN source_dict
              /\ reads[p] = {source_dict[req[p].lang]}

\* both callers were refused "xx_ZZ", one directly and one by the route
C4_Witness ==
    /\ pc[1] = "done" /\ req[1].lang = "xx_ZZ" /\ req[1].via = "direct"
    /\ outcome[1] = "ValueError" /\ reads[1] = {}
    /\ pc[2] = "done" /\ req[2].lang = "xx_ZZ" /\ req[2].via = "get_ipa"
    /\ outcome[2] = "HTTP400" /\ reads[2] = {}

\* C5: each name of available_formats, passed as the output format of a
\* character-based translation, selects its own formatter: the first the
\* identity, the second the numeric and the third the Jyutping formatter.
C5_AdvertisedFormats ==
    (pc[1] = "done" /\ InZh(1)) =>
        LET raw == Flatten(result_parts[1]) IN
        /\ req[1].fmt = available_formats[1] =>
              result[1] = _format_ipa_org(raw)
        /\ req[1].fmt = available_formats[2] =>
              result[1] = _format_ipa_num(raw)
        /\ req[1].fmt = available_formats[3] =>
              result[1] = _format_jyutping(raw)

\* ----------------------------------------------------------------- C6
\* the character at 0-based position at is no key and starts no key of
\* length 2 to 6 there
C6_PassThroughAt(s, at, d) ==
    /\ <<s[at + 1]>> \notin DOMAIN d
    /\ KeyLensAt(s, at, d, 2, MaxWordLen) = {}

RECURSIVE C6_PassChars(_, _, _)
\* those characters of s from position at on, in input order
C6_PassChars(s, at, d) ==
    IF at >= Len(s) THEN <<>>
    ELSE (IF C6_PassThroughAt(s, at, d) THEN <<s[at + 1]>> ELSE <<>>)
             \o C6_PassChars(s, at + 1, d)

RECURSIVE C6_IsSubseq(_, _)
\* the characters of a occur in b, in order
C6_IsSubseq(a, b) ==
    IF a = <<>> THEN TRUE
    ELSE IF b = <<>> THEN FALSE
    ELSE IF Head(a) = Head(b) THEN C6_IsSubseq(Tail(a), Tail(b))
    ELSE C6_IsSubseq(a, Tail(b))

\* C6 as stated: every input character that is no key and starts no key of
\* length 2 to 6 at its position is reproduced verbatim in the string
\* returned, in its place among the pieces, for every output format.
C6_EveryPassThroughCharReturned ==
    (pc[1] = "done" /\ InZh(1)) =>
        C6_IsSubseq(C6_PassChars(req[1].text, 0, DictOf(1)), result[1])

RECURSIVE C6_Offset(_, _)
\* the length of the first k pieces
C6_Offset(parts, k) ==
    IF k = 0 THEN 0 ELSE C6_Offset(parts, k - 1) + Len(parts[k])

\* C6 amended: a character the cursor stands at that is no key and starts
\* no key of length 2 to 6 there is appended as a piece of its own, with
\* nothing around it; the string returned is the requested formatter
\* applied to the joined pieces, so under every format name other than
\* "num" and "jyutping" the character is in the output unchanged, at the
\* offset of its piece.
C6_CopyThrough ==
    InZh(1) =>
        /\ Len(result_parts[1]) = Len(spans[1])
        /\ \A k \in 1..Len(spans[1]) :
              LET at == spans[1][k][1] IN
              C6_PassThroughAt(chars[1], at, DictOf(1)) =>
                  /\ result_parts[1][k] = <<chars[1][at + 1]>>
                  /\ spans[1][k][2] = 1
                  /\ (pc[1] = "done"
                        /\ req[1].fmt \notin {"num", "jyutping"}) =>
                        result[1][C6_Offset(result_parts[1], k - 1) + 1]
                            = chars[1][at + 1]
        /\ pc[1] = "done" =>
              /\ req[1].fmt \notin {"num", "jyutping"} =>
                    result[1] = Flatten(result_parts[1])
              /\ req[1].fmt = "num" =>
                    result[1] = _format_ipa_num(Flatten(result_parts[1]))
              /\ req[1].fmt = "jyutping" =>
                    result[1] = _format_jyutping(Flatten(result_parts[1]))

\* "a c" in Cantonese: the space and the c come out as typed
C6_Witness ==
    /\ pc[1] = "done" /\ InZh(1)
    /\ req[1].lang = "yue" /\ req[1].fmt = "org" /\ ~req[1].show
    /\ req[1].text = <<"a", " ", "c">>
    /\ result[1] = <<"/", "a", "˥", "/", " ", "c">>

\* ----------------------------------------------------------------- C7
\* 1: two tone glyphs, 2: k, t or p and a glyph, 3: one glyph, 4: the colon
C7_Class(old) ==
    IF old = <<":">> THEN 4
    ELSE IF Len(old) = 1 THEN 3
    ELSE IF old[1] \in {"k", "t", "p"} THEN 2
    ELSE 1

\* an occurrence of old in ts that holds a character some rule wrote
C7_TouchesProduced(ts, old) ==
    \E j \in 1..(Len(ts) - Len(old) + 1) :
        /\ Untag(SubSeq(ts, j, j + Len(old) - 1)) = old
        /\ \E k \in j..(j + Len(old) - 1) : ts[k][2] # 0

\* C7: _format_jyutping applies the replacement list in order, one rule at
\* a time over the whole string (digraphs, then k/t/p with a glyph, then
\* single glyphs, then the colon); no rule matches text an earlier rule
\* wrote; the result holds none of the glyphs 5, 3, 2 (high, mid, low) nor
\* a colon.
C7_Jyutping ==
    /\ \A a, b \in 1..Len(JyutpingReplacements) :
          a < b => C7_Class(JyutpingReplacements[a][1])
                       <= C7_Class(JyutpingReplacements[b][1])
    /\ fpc = "jyutping" =>
          /\ Untag(ftxt) = ApplyReplacements(
                               fin, SubSeq(JyutpingReplacements, 1, fri))
          /\ fri < Len(JyutpingReplacements) =>
                ~C7_TouchesProduced(ftxt, JyutpingReplacements[fri + 1][1])
    /\ fpc = "jyutping_done" =>
          /\ fout = _format_jyutping(fin)
          /\ \A k \in 1..Len(fout) : fout[k] \notin {"˥", "˧", "˨", ":"}

\* mid, high, mid: the first rule takes the later pair, giving 31 and not 23
C7_Witness ==
    /\ fpc = "jyutping_done"
    /\ fin = <<"˧", "˥", "˧">>
    /\ fout = <<"3", "1">>

\* ----------------------------------------------------------------- C8
C8_NumOf(c) ==
    CASE c = "˥" -> <<"5">> [] c = "˧" -> <<"3">> [] c = "˨" -> <<"2">>
      [] c = "˩" -> <<"1">> [] c = ":" -> <<>> [] OTHER -> <<c>>

\* C8: _format_ipa_num replaces each tone glyph by its digit (5, 3, 2, 1),
\* deletes every colon and keeps every other character, in order; the
\* result holds no tone glyph and no colon.
C8_Numeric ==
    /\ _format_ipa_num(<<"t", "˥", "a", "˧", ":">>) = <<"t", "5", "a", "3">>
    /\ fpc = "num_done" =>
          /\ fout = Flatten([k \in 1..Len(fin) |-> C8_NumOf(fin[k])])
          /\ \A k \in 1..Len(fout) :
                fout[k] \notin {"˥", "˧", "˨", "˩", ":"}

C8_Witness ==
    /\ fpc = "num_done"
    /\ fin = <<"˩", ":", "a">>
    /\ fout = <<"1", "a">>

\* ----------------------------------------------------------------- C9
\* the input span of iteration k
C9_Span(p, k) ==
    SubSeq(chars[p], spans[p][k][1] + 1, spans[p][k][1] + spans[p][k][2])

C9_Safe ==
    InZh(1) =>
        /\ chars[1] = req[1].text
        /\ i[1] <= Len(chars[1])
        /\ i[1] = IF spans[1] = <<>> THEN 0
                  ELSE spans[1][Len(spans[1])][1] + spans[1][Len(spans[1])][2]
        /\ \A k \in 1..Len(spans[1]) :
              /\ spans[1][k][1] = IF k = 1 THEN 0
                                  ELSE spans[1][k - 1][1] + spans[1][k - 1][2]
              /\ spans[1][k][2] \in 1..MaxWordLen
              /\ spans[1][k][2] >= 2 =>
                    /\ C9_Span(1, k) \in DOMAIN DictOf(1)
                    /\ <<chars[1][spans[1][k][1] + 1]>> \notin DOMAIN DictOf(1)
        /\ Flatten([k \in 1..Len(spans[1]) |-> C9_Span(1, k)])
              = SubSeq(chars[1], 1, i[1])
        /\ pc[1] = "done" =>
              /\ i[1] = Len(chars[1])
              /\ req[1].text = <<>> => result[1] = <<>>

\* C9: the segmentation loop terminates: every iteration advances the
\* cursor by 1 or by the matched length (2 to 6), the cursor never passes
\* the end and ends at it, the spans consumed make up the input, empty
\* input gives empty output, and a call in the loop reaches the end of the
\* loop, its cursor at the input length.
C9_SegmentationTerminates ==
    /\ []C9_Safe
    /\ (pc[1] = "zh_loop")
          ~> (pc[1] \in {"zh_loop", "done"} /\ i[1] = Len(chars[1]))

\* six b's in Cantonese are taken in one step of six
C9_Witness ==
    /\ pc[1] = "done" /\ InZh(1)
    /\ req[1].text = <<"b", "b", "b", "b", "b", "b">>
    /\ spans[1] = <<<<0, 6, TRUE>>>>

\* ---------------------------------------------------------------- C10
\* C10: no sequence or interleaving of calls changes the registry or a
\* dictionary; a call reads only the dictionary of its own language code,
\* and two calls with the same arguments give the same result.
C10_CallsAreIndependent ==
    /\ source_dict = SourceDictInit
    /\ data = DataInit
    /\ \A p \in Procs :
          /\ reads[p] \subseteq {SourceDictInit[c] : c \in {req[p].lang}
                                      \cap DOMAIN SourceDictInit}
          /\ (InZh(p) \/ InEn(p)) =>
                ipa_dict[p] = DataInit[SourceDictInit[req[p].lang]]
    /\ \A p, q \in Procs :
          (/\ pc[p] = "done" /\ pc[q] = "done"
           /\ req[p].text = req[q].text /\ req[p].lang = req[q].lang
           /\ req[p].show = req[q].show /\ req[p].fmt = req[q].fmt) =>
              /\ result[p] = result[q]
              /\ req[p].via = req[q].via => outcome[p] = outcome[q]

\* both callers asked for "ab" in Cantonese, one through the route
C10_Witness ==
    /\ pc[1] = "done" /\ pc[2] = "done"
    /\ req[1] = [text |-> <<"a", "b">>, lang |-> "yue", show |-> TRUE,
                 fmt |-> "num", via |-> "direct"]
    /\ req[2] = [req[1] EXCEPT !.via = "get_ipa"]
    /\ result[1] = <<"a", "/", "a", "5", "/", "b">>
    /\ result[2] = result[1]

====
